---- MODULE Spec2Model ----
(***************************************************************************)
(* Parametric t-SNE core (fastText/parametric_tSNE/core.py): the array     *)
(* pipeline that builds the target matrix P, the KL loss, the chunked beta *)
(* computation and the training batch generator.                           *)
(*                                                                         *)
(* Numbers.  float64 values are modelled by exact arithmetic.  Kernel and  *)
(* similarity values are integers counting units of DEFAULT_EPS = 1e-7     *)
(* (the integer n stands for n * 1e-7); quotients of two such values are   *)
(* exact rationals <<num, den>> in lowest terms.  Indices are 1-based here *)
(* and 0-based in the source.                                              *)
(*                                                                         *)
(* Arrays.  A 2-d numpy array is [nr, nc, e] with e[i][j] its entries; a   *)
(* 1-d array is a sequence.  Elementwise operations follow numpy's         *)
(* broadcasting rule and fail with ValueError on incompatible shapes.      *)
(***************************************************************************)
EXTENDS Integers, Sequences, FiniteSets, TLC

VARIABLES
    \* ---- the array pipeline: one call of one of its functions
    p_pc,        \* "called" | "returned" | "raised"
    p_fn,        \* the function called
    input,       \* (N, D) batch of points
    betas,       \* (M,) kernel widths
    X_,          \* the array object handed to _get_normed_sym_np
    X0,          \* the entries that object held when it was handed over
    P_ji,        \* the value _make_P_ji returned
    ret,         \* the value the called function returned
    \* ---- kl_loss
    k_pc,        \* "called" | "returned"
    y_true,      \* P_, in units of DEFAULT_EPS
    Q_,          \* the value of _make_Q(y_pred, alpha, batch_size), same units
    kl_total_cost,
    \* ---- fit, _calc_training_betas, _make_train_generator
    t_pc,        \* position in fit / _calc_training_betas
    t_fn,        \* the method the caller invoked
    training_data,
    perplexity,
    beta_batch_size,
    batch_size,
    heap,        \* the beta arrays: "arg" the caller's, "new" the one np.zeros made
    supplied,    \* <<entries>> of the caller's array when fit was called, <<>> if None
    training_betas, \* fit's variable training_betas: "None" or a reference into heap
    self_training_betas,
    cur_start,
    cur_end,
    writes,      \* how often each index of the new array was assigned
    searches,    \* the chunks handed to calc_betas_loop, as <<start, end>>
    gen_pc,      \* "none" | "created" | "suspended" | "raised"
    gen_betas,   \* the generator's reference to its betas
    cur_step,
    yields,      \* number of batches yielded so far
    yielded      \* the last batch yielded: [cur_dat, P_array]

pvars == <<p_pc, p_fn, input, betas, X_, X0, P_ji, ret>>
kvars == <<k_pc, y_true, Q_, kl_total_cost>>
tvars == <<t_pc, t_fn, training_data, perplexity, beta_batch_size, batch_size,
           heap, supplied, training_betas, self_training_betas, cur_start, cur_end,
           writes, searches, gen_pc, gen_betas, cur_step, yields, yielded>>
vars == <<pvars, kvars, tvars>>

-----------------------------------------------------------------------------
(* Bounds of the model. *)

\* largest batch handed to the array pipeline and to kl_loss
MaxN == 2
\* point coordinates are 0..MaxCoord
MaxCoord == 2
\* entries of a raw similarity matrix are 0..MaxRaw units
MaxRaw == 1
\* off-diagonal entries of y_true and Q_ are 0..MaxKL units
MaxKL == 1
\* largest training set
MaxPts == 3
\* chunk sizes tried for _calc_training_betas are 1..MaxChunk
MaxChunk == 2
\* batch sizes are 1..MaxBatch
MaxBatch == 2
\* the generator is asked for at most MaxYields batches
MaxYields == 3

\* Kernel widths.  With squared distances >= 1 these put exp(-beta*d) in the
\* range of a few DEFAULT_EPS, where the eps in the normalisation matters.
BetaVals == {13, 14, 15}

-----------------------------------------------------------------------------
(* Exact arithmetic. *)

RECURSIVE GCD(_, _)
GCD(a, b) == IF b = 0 THEN a ELSE GCD(b, a % b)

Abs(x) == IF x < 0 THEN -x ELSE x

\* the rational n/d (d > 0) in lowest terms
Rat(n, d) == LET g == GCD(Abs(n), d) IN <<n \div g, d \div g>>

RAdd(x, y) == Rat(x[1] * y[2] + y[1] * x[2], x[2] * y[2])

RHalf(x) == Rat(x[1], 2 * x[2])

RECURSIVE SumTo(_, _)
SumTo(f, n) == IF n = 0 THEN 0 ELSE f[n] + SumTo(f, n - 1)

RECURSIVE RSumTo(_, _)
RSumTo(f, n) == IF n = 0 THEN <<0, 1>> ELSE RAdd(f[n], RSumTo(f, n - 1))

Min(a, b) == IF a < b THEN a ELSE b

-----------------------------------------------------------------------------
(* numpy arrays and broadcasting. *)

Arr2(nr, nc, F(_, _)) ==
    [nr |-> nr, nc |-> nc, e |-> [i \in 1..nr |-> [j \in 1..nc |-> F(i, j)]]]

EmptyArr == [nr |-> 0, nc |-> 0, e |-> <<>>]

\* the broadcast of two dimension sizes, -1 when they are incompatible
BDim(a, b) == IF a = b THEN a ELSE IF a = 1 THEN b ELSE IF b = 1 THEN a ELSE -1

\* the index read in a dimension of size n when the result's index is i
BIdx(n, i) == IF n = 1 THEN 1 ELSE i

Raised == [ok |-> FALSE, val |-> EmptyArr]

Returned(a) == [ok |-> TRUE, val |-> a]

-----------------------------------------------------------------------------
(* The array pipeline. *)

\* 1e-7, the unit all similarity values are counted in
DEFAULT_EPS == 1

\* utils.get_squared_cross_diff_np: Z[i][j] = ||x_i - x_j||^2
get_squared_cross_diff_np(X) ==
    Arr2(Len(X), Len(X),
         LAMBDA i, j : SumTo([k \in 1..Len(X[i]) |->
                                 (X[i][k] - X[j][k]) * (X[i][k] - X[j][k])],
                             Len(X[i])))

\* np.exp(-t) in units of DEFAULT_EPS, rounded to the nearest unit
ExpNeg(t) ==
    CASE t = 0  -> 10000000
      [] t = 1  -> 3678794
      [] t = 2  -> 1353353
      [] t = 3  -> 497871
      [] t = 4  -> 183156
      [] t = 5  -> 67379
      [] t = 6  -> 24788
      [] t = 7  -> 9119
      [] t = 8  -> 3355
      [] t = 9  -> 1234
      [] t = 10 -> 454
      [] t = 11 -> 167
      [] t = 12 -> 61
      [] t = 13 -> 23
      [] t = 14 -> 8
      [] t = 15 -> 3
      [] t = 16 -> 1
      [] OTHER  -> 0

\* a slip that scales row i by betas[i] (betas taken as a column vector)
MulByBetasAsColumn(D, b) ==
    Arr2(BDim(D.nr, Len(b)), D.nc,
         LAMBDA i, j : D.e[BIdx(D.nr, i)][j] * b[BIdx(Len(b), i)])

\* in_sq_diffs * betas: (N,N) times (M,).  numpy aligns the 1-d operand with
\* the last axis, so the factor of entry (i,j) is betas[j]
MulByBetas(D, b) ==
    Arr2(D.nr, BDim(D.nc, Len(b)),
         LAMBDA i, j : D.e[i][BIdx(D.nc, j)] * b[BIdx(Len(b), j)])

\* _make_P_ji(input, betas) with in_sq_diffs left at None
_make_P_ji(in, b) ==
    LET in_sq_diffs == get_squared_cross_diff_np(in)
    IN  IF BDim(in_sq_diffs.nc, Len(b)) = -1
        THEN Raised
        ELSE LET tmp == MulByBetas(in_sq_diffs, b)
             IN  Returned(Arr2(tmp.nr, tmp.nc, LAMBDA i, j : ExpNeg(tmp.e[i][j])))

\* 1.0 - np.identity(batch_size)
zero_diags(n) == Arr2(n, n, LAMBDA i, j : IF i = j THEN 0 ELSE 1)

\* X_ *= zero_diags, on shapes the in-place product accepts
TimesMask(X, mask) ==
    Arr2(X.nr, X.nc, LAMBDA i, j : X.e[i][j] * mask.e[i][BIdx(mask.nc, j)])

\* np.sum(X_, axis=0, keepdims=True), as the sequence of column sums
ColSums(X) == [j \in 1..X.nc |-> SumTo([i \in 1..X.nr |-> X.e[i][j]], X.nr)]

\* a variant that also divides by the number of rows, for unit total mass
NormalizeToUnitMass(X, norm_facs, eps) ==
    Arr2(X.nr, X.nc, LAMBDA i, j : Rat(X.e[i][j], X.nr * (norm_facs[j] + eps)))

\* X_ / (norm_facs + _eps): entry (i,j) over the floored sum of column j
Normalize(X, norm_facs, eps) ==
    Arr2(X.nr, X.nc, LAMBDA i, j : Rat(X.e[i][j], norm_facs[j] + eps))

\* a slip that adds the matrix to itself instead of to its transpose
SymmetrizeWithoutTranspose(X) ==
    Arr2(X.nr, X.nc, LAMBDA i, j : RHalf(RAdd(X.e[i][j], X.e[i][j])))

\* 0.5*(X_ + np.transpose(X_)), the sum broadcast as numpy does
Symmetrize(X) ==
    Arr2(BDim(X.nr, X.nc), BDim(X.nc, X.nr),
         LAMBDA i, j : RHalf(RAdd(X.e[BIdx(X.nr, i)][BIdx(X.nc, j)],
                                  X.e[BIdx(X.nr, j)][BIdx(X.nc, i)])))

\* _get_normed_sym_np(X_, _eps).  X_ *= zero_diags writes into the array
\* object that was passed in: `arg` is that object after the call, `val` the
\* new array returned.
_get_normed_sym_np(X, eps) ==
    LET mask == zero_diags(X.nr)
    IN  IF BDim(X.nc, mask.nc) # X.nc
        THEN [ok |-> FALSE, val |-> EmptyArr, arg |-> X]
        ELSE LET X1 == TimesMask(X, mask)
                 norm_facs == ColSums(X1)
                 X2 == Normalize(X1, norm_facs, eps)
             IN  IF BDim(X2.nr, X2.nc) = -1
                 THEN [ok |-> FALSE, val |-> EmptyArr, arg |-> X1]
                 ELSE [ok |-> TRUE, val |-> Symmetrize(X2), arg |-> X1]

\* _make_P_np(input, betas): `P_ji` is what _make_P_ji returned, `arg` the
\* same object after _get_normed_sym_np
_make_P_np(in, b) ==
    LET r == _make_P_ji(in, b)
    IN  IF ~r.ok
        THEN [ok |-> FALSE, val |-> EmptyArr, P_ji |-> EmptyArr, arg |-> EmptyArr]
        ELSE LET s == _get_normed_sym_np(r.val, DEFAULT_EPS)
             IN  [ok |-> s.ok, val |-> s.val, P_ji |-> r.val, arg |-> s.arg]

-----------------------------------------------------------------------------
(* Calls into the array pipeline. *)

Points == {<<c>> : c \in 0..MaxCoord}

\* batches of 1..MaxN pairwise distinct points
Batches ==
    UNION {{b \in [1..n -> Points] : \A i, j \in 1..n : b[i] = b[j] => i = j}
           : n \in 1..MaxN}

\* beta vectors of every length 0..MaxN+1, the batch's length or not
BetaVectors == UNION {[1..m -> BetaVals] : m \in 0..(MaxN + 1)}

\* square matrices of non-negative entries, the diagonal included
RawMatrices ==
    UNION {{[nr |-> n, nc |-> n, e |-> f] : f \in [1..n -> [1..n -> 0..MaxRaw]]}
           : n \in 1..MaxN}

IdleP ==
    /\ p_pc = "idle" /\ p_fn = "none" /\ input = <<>> /\ betas = <<>>
    /\ X_ = EmptyArr /\ X0 = EmptyArr /\ P_ji = EmptyArr /\ ret = EmptyArr

IdleK ==
    /\ k_pc = "idle" /\ y_true = EmptyArr /\ Q_ = EmptyArr /\ kl_total_cost = 0

IdleT ==
    /\ t_pc = "idle" /\ t_fn = "none" /\ training_data = <<>> /\ perplexity = <<>>
    /\ beta_batch_size = 0 /\ batch_size = 0
    /\ heap = [arg |-> <<>>, new |-> <<>>] /\ supplied = <<>>
    /\ training_betas = "None" /\ self_training_betas = "None"
    /\ cur_start = 0 /\ cur_end = 0 /\ writes = <<>> /\ searches = <<>>
    /\ gen_pc = "none" /\ gen_betas = "None" /\ cur_step = -1 /\ yields = 0
    /\ yielded = <<>>

InitP ==
    /\ p_pc = "called"
    /\ \/ /\ p_fn \in {"_make_P_ji", "_make_P_np"}
          /\ input \in Batches
          /\ betas \in BetaVectors
          /\ X_ = EmptyArr
       \/ /\ p_fn = "_get_normed_sym_np"
          /\ input = <<>>
          /\ betas = <<>>
          /\ X_ \in RawMatrices
    /\ X0 = X_
    /\ P_ji = EmptyArr
    /\ ret = EmptyArr
    /\ IdleK
    /\ IdleT

Call_make_P_ji ==
    /\ p_pc = "called"
    /\ p_fn = "_make_P_ji"
    /\ LET r == _make_P_ji(input, betas)
       IN  /\ p_pc' = IF r.ok THEN "returned" ELSE "raised"
           /\ ret' = r.val
           /\ P_ji' = r.val
    /\ UNCHANGED <<p_fn, input, betas, X_, X0, kvars, tvars>>

Call_get_normed_sym_np ==
    /\ p_pc = "called"
    /\ p_fn = "_get_normed_sym_np"
    /\ LET r == _get_normed_sym_np(X_, DEFAULT_EPS)
       IN  /\ p_pc' = IF r.ok THEN "returned" ELSE "raised"
           /\ ret' = r.val
           /\ X_' = r.arg
    /\ UNCHANGED <<p_fn, input, betas, X0, P_ji, kvars, tvars>>

Call_make_P_np ==
    /\ p_pc = "called"
    /\ p_fn = "_make_P_np"
    /\ LET r == _make_P_np(input, betas)
       IN  /\ p_pc' = IF r.ok THEN "returned" ELSE "raised"
           /\ ret' = r.val
           /\ P_ji' = r.P_ji
           /\ X0' = r.P_ji
           /\ X_' = r.arg
    /\ UNCHANGED <<p_fn, input, betas, kvars, tvars>>

NextP == Call_make_P_ji \/ Call_get_normed_sym_np \/ Call_make_P_np

SpecP == InitP /\ [][NextP]_vars

-----------------------------------------------------------------------------
(* Properties of the array pipeline. *)

N == Len(input)

SqDist(i, j) == get_squared_cross_diff_np(input).e[i][j]

PjiReturned == p_pc = "returned" /\ p_fn = "_make_P_ji" /\ Len(betas) = N

\* C1 as stated: entry (i,j) of the matrix _make_P_ji returns is the kernel
\* value under the beta of the row point i, exp(-betas[i] * dist(i,j)^2).
C1_RowBeta ==
    PjiReturned =>
        \A i, j \in 1..N : ret.e[i][j] = ExpNeg(betas[i] * SqDist(i, j))

\* C1 amended: for a batch of N points and a beta vector of length N, entry
\* (i,j) of the matrix _make_P_ji returns is exp(-betas[j] * dist(i,j)^2):
\* the beta of the column point j is the one used.
C1_ColumnBeta ==
    PjiReturned =>
        /\ ret.nr = N /\ ret.nc = N
        /\ \A i, j \in 1..N : ret.e[i][j] = ExpNeg(betas[j] * SqDist(i, j))

\* a returned matrix whose entries tell the two betas of a pair apart
C1_Witness ==
    /\ PjiReturned
    /\ \E i, j \in 1..N :
          /\ i # j
          /\ ExpNeg(betas[i] * SqDist(i, j)) # ExpNeg(betas[j] * SqDist(i, j))

SymReturned == p_pc = "returned" /\ p_fn = "_get_normed_sym_np"

\* C2: for a square input of non-negative entries, whatever its diagonal,
\* the matrix _get_normed_sym_np returns is symmetric, has an exactly zero
\* diagonal and no negative entry.
C2_SymmetricZeroDiagNonNeg ==
    SymReturned =>
        /\ ret.nr = X0.nr /\ ret.nc = X0.nc
        /\ \A i, j \in 1..ret.nr : ret.e[i][j] = ret.e[j][i]
        /\ \A i \in 1..ret.nr : ret.e[i][i] = <<0, 1>>
        /\ \A i, j \in 1..ret.nr : ret.e[i][j][1] >= 0

\* an asymmetric input with mass on its diagonal, and a result with mass
C2_Witness ==
    /\ SymReturned
    /\ \E i, j \in 1..X0.nr : X0.e[i][j] # X0.e[j][i]
    /\ \E i \in 1..X0.nr : X0.e[i][i] > 0
    /\ \E i, j \in 1..ret.nr : ret.e[i][j][1] > 0

PnpReturned == p_pc = "returned" /\ p_fn = "_make_P_np" /\ Len(betas) = N

\* the sum of all entries of a matrix of rationals
Total(M) ==
    RSumTo([i \in 1..M.nr |-> RSumTo([j \in 1..M.nc |-> M.e[i][j]], M.nc)], M.nr)

\* S_j: the kernel mass of column j without its diagonal entry
KernelColSum(j) ==
    SumTo([i \in 1..N |-> IF i = j THEN 0 ELSE ExpNeg(betas[j] * SqDist(i, j))], N)

\* the mass the eps in the denominators takes away: sum_j eps / (S_j + eps)
EpsLoss ==
    RSumTo([j \in 1..N |-> Rat(DEFAULT_EPS, KernelColSum(j) + DEFAULT_EPS)], N)

\* C3 as stated: the matrix _make_P_np returns has total mass 1 up to the
\* perturbation of eps: at most 1, and short of 1 by no more than the eps loss.
C3_UnitMass ==
    (PnpReturned /\ N >= 2) =>
        LET t == Total(ret)
        IN  /\ t[1] <= t[2]
            /\ RAdd(t, EpsLoss)[1] >= RAdd(t, EpsLoss)[2]

\* C3 amended: for N >= 2 the total mass of the matrix _make_P_np returns is
\* N up to the perturbation of eps: each column is normalised to 1 and the
\* halved sum with the transpose keeps the total, so the mass is exactly
\* N - sum_j eps / (S_j + eps), which is N when eps is taken as 0.
C3_MassIsN ==
    (PnpReturned /\ N >= 2) => RAdd(Total(ret), EpsLoss) = <<N, 1>>

\* a returned P whose columns all carry kernel mass
C3_Witness ==
    /\ PnpReturned /\ N >= 2
    /\ \A j \in 1..N : KernelColSum(j) > 0
    /\ \E i, j \in 1..N : betas[i] # betas[j]

\* C4: after _get_normed_sym_np returns, the matrix the caller passed holds
\* the entries it held before the call, the diagonal included.
C4_ArgumentUntouched == SymReturned => X_ = X0

\* C8: _make_P_np with a beta vector whose length differs from the batch's
\* raises and never returns a matrix.
C8_LengthMismatchRaises ==
    (p_fn = "_make_P_np" /\ p_pc # "called" /\ Len(betas) # N) => p_pc = "raised"

-----------------------------------------------------------------------------
(* kl_loss.  Its values are numbers or nan: [nan, v], v in thousandths of a  *)
(* unit.                                                                     *)

Num(v) == [nan |-> FALSE, v |-> v]

NaN == [nan |-> TRUE, v |-> 0]

\* 1000 * ln(x), rounded, for a whole number of units x
Ln1000(x) ==
    CASE x = 1 -> 0
      [] x = 2 -> 693
      [] x = 3 -> 1099
      [] x = 4 -> 1386
      [] x = 5 -> 1609
      [] x = 6 -> 1792
      [] x = 7 -> 1946
      [] x = 8 -> 2079

\* tf.log(P_ + _tf_eps) - tf.log(Q_ + _tf_eps) for entries of p and q units:
\* the unit cancels in the difference; the log of a negative number is nan
\* (an argument of exactly 0 is not among the values drawn)
LogDiff(pe, qe, eps) ==
    IF pe + eps < 1 \/ qe + eps < 1
    THEN NaN
    ELSE Num(Ln1000(pe + eps) - Ln1000(qe + eps))

\* tf.multiply(P_, ...): nan stays nan
TimesP(pe, x) == IF x.nan THEN NaN ELSE Num(pe * x.v)

\* a slip that sums the matrix with its diagonal left in
matrix_keep_diag(M, toset) == M

\* tf.matrix_set_diag(kl_matr, toset): the diagonal entries are replaced
matrix_set_diag(M, toset) ==
    Arr2(M.nr, M.nc, LAMBDA i, j : IF i = j THEN toset[i] ELSE M.e[i][j])

RECURSIVE NSumTo(_, _)
NSumTo(f, n) ==
    IF n = 0 THEN Num(0)
    ELSE LET r == NSumTo(f, n - 1)
         IN  IF f[n].nan \/ r.nan THEN NaN ELSE Num(f[n].v + r.v)

\* tf.reduce_sum
reduce_sum(M) ==
    NSumTo([i \in 1..M.nr |-> NSumTo([j \in 1..M.nc |-> M.e[i][j]], M.nc)], M.nr)

\* kl_loss(y_true, y_pred, alpha, batch_size, _eps), with Q the value of
\* _make_Q(y_pred, alpha, batch_size) and batch_size the number of rows
kl_loss(P, Q, eps) ==
    LET kl_matr == Arr2(P.nr, P.nc,
                        LAMBDA i, j : TimesP(P.e[i][j],
                                             LogDiff(P.e[i][j], Q.e[i][j], eps)))
        toset == [i \in 1..P.nr |-> Num(0)]
        kl_matr_keep == matrix_set_diag(kl_matr, toset)
    IN  reduce_sum(kl_matr_keep)

\* values a leaked diagonal of y_true may hold, a negative one among them
DiagVals == {-2, 0, 1, 2}

\* the index pairs above the diagonal
Above(n) == {ij \in (1..n) \X (1..n) : ij[1] < ij[2]}

\* the symmetric n x n matrix with the entries `up` above the diagonal and
\* `dg` on it
SymMat(n, up, dg) ==
    [nr |-> n, nc |-> n,
     e |-> [i \in 1..n |-> [j \in 1..n |->
              IF i = j THEN dg[i] ELSE IF i < j THEN up[<<i, j>>] ELSE up[<<j, i>>]]]]

\* y_true: symmetric off the diagonal as _make_P_np builds it, any diagonal
Targets ==
    UNION {{SymMat(n, up, dg) : up \in [Above(n) -> 0..MaxKL], dg \in [1..n -> DiagVals]}
           : n \in 2..MaxN}

\* Q_: symmetric with a zero diagonal, as _get_normed_sym_tf builds it
Outputs(n) ==
    {SymMat(n, up, [i \in 1..n |-> 0]) : up \in [Above(n) -> 0..MaxKL]}

\* M with its diagonal set to zero
ZeroDiagonal(M) ==
    [M EXCEPT !.e = [i \in 1..M.nr |-> [j \in 1..M.nc |->
                       IF i = j THEN 0 ELSE M.e[i][j]]]]

InitK ==
    /\ k_pc = "called"
    /\ y_true \in Targets
    /\ Q_ \in Outputs(y_true.nr)
    /\ kl_total_cost = Num(0)
    /\ IdleP
    /\ IdleT

\* the loss of a batch
Call_kl_loss ==
    /\ k_pc = "called"
    /\ kl_total_cost' = kl_loss(y_true, Q_, DEFAULT_EPS)
    /\ k_pc' = "returned"
    /\ UNCHANGED <<y_true, Q_, pvars, tvars>>

\* the loss of the same batch once the diagonal of y_true is cleared
Call_kl_loss_cleared_diagonal ==
    /\ k_pc = "returned"
    /\ y_true # ZeroDiagonal(y_true)
    /\ y_true' = ZeroDiagonal(y_true)
    /\ kl_total_cost' = kl_loss(y_true', Q_, DEFAULT_EPS)
    /\ UNCHANGED <<k_pc, Q_, pvars, tvars>>

NextK == Call_kl_loss \/ Call_kl_loss_cleared_diagonal

SpecK == InitK /\ [][NextK]_vars

\* the sum over i # j of P[i][j] * (log(P[i][j] + eps) - log(Q[i][j] + eps))
OffDiagonalSum(P, Q) ==
    NSumTo([i \in 1..P.nr |->
              NSumTo([j \in 1..P.nc |->
                        IF i = j THEN Num(0)
                        ELSE TimesP(P.e[i][j],
                                    LogDiff(P.e[i][j], Q.e[i][j], DEFAULT_EPS))],
                     P.nc)],
           P.nr)

\* C9: kl_loss returns the sum over i # j of
\* P[i][j] * (log(P[i][j] + eps) - log(Q[i][j] + eps)), which is also what it
\* returns for the same matrices with the diagonal of y_true cleared: the
\* values on the diagonal of y_true do not enter the result.
C9_DiagonalExcluded ==
    k_pc = "returned" =>
        /\ kl_total_cost = OffDiagonalSum(y_true, Q_)
        /\ kl_total_cost = kl_loss(ZeroDiagonal(y_true), Q_, DEFAULT_EPS)

\* a loss returned for a target whose diagonal terms would not vanish
C9_Witness ==
    /\ k_pc = "returned"
    /\ \E i \in 1..y_true.nr : y_true.e[i][i] = -2
    /\ \E i \in 1..y_true.nr : y_true.e[i][i] > 0
    /\ ~kl_total_cost.nan /\ kl_total_cost.v # 0

-----------------------------------------------------------------------------
(* fit, _calc_training_betas and the training generator. *)

None == <<>>

Some(x) == <<x>>

\* s[lo:hi] of Python, for 0 <= lo: indices beyond the end are clipped
Slice(s, lo, hi) == SubSeq(s, Min(lo, Len(s)) + 1, Min(hi, Len(s)))

\* the default of _calc_training_betas's beta_batch_size, as fit leaves it
DefaultBetaBatchSize == 1000

\* utils.calc_betas_loop, one point: the beta the search settles on is a
\* function of the point's row of squared distances within the data it is
\* given and of the target perplexity.  The value stands for that function:
\* it folds both arguments into the range of BetaVals.
BetaSearch(row, perp) == 13 + ((SumTo(row, Len(row)) + 2 * perp) % 3)

\* utils.calc_betas_loop(data, perplexity): the betas of the rows of data
calc_betas_loop(data, perp) ==
    LET D == get_squared_cross_diff_np(data)
    IN  [k \in 1..Len(data) |-> BetaSearch(D.e[k], perp)]

num_pts == Len(training_data)

\* training sets of 1..MaxPts pairwise distinct points
Datasets ==
    UNION {{d \in [1..n -> Points] : \A i, j \in 1..n : d[i] = d[j] => i = j}
           : n \in 1..MaxPts}

\* unset, negative, zero and positive targets
Perplexities == {None, Some(-1), Some(0), Some(2)}

InitCommonT ==
    /\ training_data \in Datasets
    /\ self_training_betas = "None"
    /\ cur_start = 0 /\ cur_end = 0 /\ writes = <<>> /\ searches = <<>>
    /\ gen_pc = "none" /\ gen_betas = "None" /\ cur_step = -1 /\ yields = 0
    /\ yielded = <<>>
    /\ IdleP
    /\ IdleK

\* a direct call of _calc_training_betas(training_data, perplexity, c)
InitBetas ==
    /\ InitCommonT
    /\ t_fn = "_calc_training_betas"
    /\ t_pc = "_calc_training_betas"
    /\ perplexity \in Perplexities
    /\ beta_batch_size \in 1..MaxChunk
    /\ batch_size = 0
    /\ heap = [arg |-> <<>>, new |-> <<>>]
    /\ supplied = None
    /\ training_betas = "None"

\* a call of fit(training_data, training_betas) on a model built with
\* perplexity and batch_size
InitFit ==
    /\ InitCommonT
    /\ t_fn = "fit"
    /\ t_pc = "fit"
    /\ perplexity \in {None, Some(2)}
    /\ beta_batch_size = DefaultBetaBatchSize
    /\ batch_size \in 1..MaxBatch
    /\ \/ /\ training_betas = "None"
          /\ heap = [arg |-> <<>>, new |-> <<>>]
          /\ supplied = None
       \/ /\ training_betas = "arg"
          /\ \E b \in [1..num_pts -> BetaVals] :
                /\ heap = [arg |-> b, new |-> <<>>]
                /\ supplied = Some(b)

\* a slip that searches even when the caller supplied betas
FitEntryAlwaysSearches ==
    /\ t_pc = "fit"
    /\ self_training_betas' = training_betas
    /\ t_pc' = "_calc_training_betas"
    /\ UNCHANGED <<gen_pc, gen_betas>>
    /\ UNCHANGED <<t_fn, training_data, perplexity, beta_batch_size, batch_size,
                   heap, supplied, training_betas, cur_start, cur_end, writes,
                   searches, cur_step, yields, yielded, pvars, kvars>>

\* fit up to the call of _calc_training_betas, or, with betas supplied, up
\* to the creation of the generator (pretraining and compile touch neither
\* the data nor the betas)
FitEntry ==
    /\ t_pc = "fit"
    /\ self_training_betas' = training_betas
    /\ IF training_betas = "None"
       THEN /\ t_pc' = "_calc_training_betas"
            /\ UNCHANGED <<gen_pc, gen_betas>>
       ELSE /\ t_pc' = "fit_generator"
            /\ gen_pc' = "created"
            /\ gen_betas' = training_betas
    /\ UNCHANGED <<t_fn, training_data, perplexity, beta_batch_size, batch_size,
                   heap, supplied, training_betas, cur_start, cur_end, writes,
                   searches, cur_step, yields, yielded, pvars, kvars>>

\* _calc_training_betas up to its loop: the assertion, np.zeros, the first
\* chunk's bounds
CalcEntry ==
    /\ t_pc = "_calc_training_betas"
    /\ IF perplexity = None
       THEN /\ t_pc' = "raised"
            /\ UNCHANGED <<heap, writes, cur_start, cur_end>>
       ELSE /\ t_pc' = "calc_loop"
            /\ heap' = [heap EXCEPT !.new = [k \in 1..num_pts |-> 0]]
            /\ writes' = [k \in 1..num_pts |-> 0]
            /\ cur_start' = 0
            /\ cur_end' = Min(0 + beta_batch_size, num_pts)
    /\ UNCHANGED <<t_fn, training_data, perplexity, beta_batch_size, batch_size,
                   supplied, training_betas, self_training_betas, searches,
                   gen_pc, gen_betas, cur_step, yields, yielded, pvars, kvars>>

\* a slip that searches each chunk together with all the points after it
ChunkToTheEnd(data, lo, hi) == Slice(data, lo, Len(data))

\* training_data[cur_start:cur_end, :]
ChunkData(data, lo, hi) == Slice(data, lo, hi)

\* one pass of the while loop
CalcLoop ==
    /\ t_pc = "calc_loop"
    /\ cur_start < num_pts
    /\ LET cur_training_data == ChunkData(training_data, cur_start, cur_end)
           cur_training_betas == calc_betas_loop(cur_training_data, perplexity[1])
       IN  /\ heap' = [heap EXCEPT !.new =
                          [k \in 1..num_pts |->
                              IF cur_start < k /\ k <= cur_end
                              THEN cur_training_betas[k - cur_start]
                              ELSE heap.new[k]]]
           /\ writes' = [k \in 1..num_pts |->
                            IF cur_start < k /\ k <= cur_end
                            THEN writes[k] + 1 ELSE writes[k]]
    /\ searches' = Append(searches, <<cur_start, cur_end>>)
    /\ cur_start' = cur_start + beta_batch_size
    /\ cur_end' = Min(cur_start' + beta_batch_size, num_pts)
    /\ UNCHANGED <<t_pc, t_fn, training_data, perplexity, beta_batch_size,
                   batch_size, supplied, training_betas, self_training_betas,
                   gen_pc, gen_betas, cur_step, yields, yielded, pvars, kvars>>

\* the loop's exit and the return; in fit, the rest of fit up to the
\* creation of the generator
CalcReturn ==
    /\ t_pc = "calc_loop"
    /\ ~(cur_start < num_pts)
    /\ IF t_fn = "fit"
       THEN /\ training_betas' = "new"
            /\ self_training_betas' = "new"
            /\ t_pc' = "fit_generator"
            /\ gen_pc' = "created"
            /\ gen_betas' = "new"
       ELSE /\ t_pc' = "returned"
            /\ UNCHANGED <<training_betas, self_training_betas, gen_pc, gen_betas>>
    /\ UNCHANGED <<t_fn, training_data, perplexity, beta_batch_size, batch_size,
                   heap, supplied, cur_start, cur_end, writes, searches,
                   cur_step, yields, yielded, pvars, kvars>>

\* training_data.shape[0] // batch_size
num_steps == num_pts \div batch_size

\* one request for the next batch: the generator runs to its next yield, or
\* ends with the exception it raises
GenNext ==
    /\ t_pc = "fit_generator"
    /\ gen_pc \in {"created", "suspended"}
    /\ yields < MaxYields
    /\ IF num_steps = 0
       THEN /\ gen_pc' = "raised"
            /\ UNCHANGED <<cur_step, yields, yielded>>
       ELSE LET step == (cur_step + 1) % num_steps
                lo == batch_size * step
                hi == batch_size * (step + 1)
                cur_dat == Slice(training_data, lo, hi)
                cur_betas == Slice(heap[gen_betas], lo, hi)
                P_array == _make_P_np(cur_dat, cur_betas)
            IN  IF P_array.ok
                THEN /\ gen_pc' = "suspended"
                     /\ cur_step' = step
                     /\ yields' = yields + 1
                     /\ yielded' = [cur_dat |-> cur_dat, P_array |-> P_array.val]
                ELSE /\ gen_pc' = "raised"
                     /\ cur_step' = step
                     /\ UNCHANGED <<yields, yielded>>
    /\ UNCHANGED <<t_pc, t_fn, training_data, perplexity, beta_batch_size,
                   batch_size, heap, supplied, training_betas,
                   self_training_betas, cur_start, cur_end, writes, searches,
                   gen_betas, pvars, kvars>>

NextBetas == CalcEntry \/ CalcLoop \/ CalcReturn

NextFit == FitEntry \/ CalcEntry \/ CalcLoop \/ CalcReturn \/ GenNext

\* the interpreter runs a call to its end
SpecBetas == InitBetas /\ [][NextBetas]_vars /\ WF_vars(NextBetas)

SpecFit == InitFit /\ [][NextFit]_vars

-----------------------------------------------------------------------------
(* Properties of _calc_training_betas. *)

\* the chunk [ChunkStart, ChunkEnd) that holds index k (k counted from 1)
ChunkStart(k) == beta_batch_size * ((k - 1) \div beta_batch_size)

ChunkEnd(k) == Min(ChunkStart(k) + beta_batch_size, num_pts)

\* the beta the search returns for point k when run on k's chunk alone
OwnChunkBeta(k) ==
    calc_betas_loop(Slice(training_data, ChunkStart(k), ChunkEnd(k)),
                    perplexity[1])[k - ChunkStart(k)]

\* [0,c), [c,2c), ..., the last one cut at num_pts
ConsecutiveChunks ==
    [m \in 1..((num_pts + beta_batch_size - 1) \div beta_batch_size) |->
        <<beta_batch_size * (m - 1), Min(beta_batch_size * m, num_pts)>>]

\* C6: _calc_training_betas with chunk size c >= 1 terminates; it searches
\* the consecutive chunks [0,c), [c,2c), ..., writes every index exactly once,
\* and the beta at index k is the one the search returned for point k on the
\* points of k's own chunk only.
C6_ChunksAreStrict ==
    /\ [](t_pc = "returned" =>
            /\ searches = ConsecutiveChunks
            /\ \A k \in 1..num_pts :
                  writes[k] = 1 /\ heap.new[k] = OwnChunkBeta(k))
    /\ ((t_pc = "calc_loop") ~> (t_pc = "returned"))

\* a return after several chunks, the last one shorter
C6_Witness ==
    /\ t_pc = "returned"
    /\ t_fn = "_calc_training_betas"
    /\ Len(searches) >= 2
    /\ num_pts % beta_batch_size # 0

\* C7: with perplexity unset or non-positive, _calc_training_betas raises
\* before any search runs and returns no beta vector.
C7_InvalidPerplexityRaises ==
    (perplexity = None \/ perplexity[1] <= 0) =>
        /\ searches = <<>>
        /\ t_pc \in {"_calc_training_betas", "raised"}

-----------------------------------------------------------------------------
(* Properties of fit and the training generator. *)

\* the rows [b*s, b*(s+1)) of a sequence
BatchOf(seq, s) == Slice(seq, batch_size * s, batch_size * (s + 1))

\* C5: when fit is given betas, no search runs, the caller's array keeps its
\* entries through fit and every batch, and each target matrix P yielded is
\* built from the supplied betas of the batch's index range.
C5_SuppliedBetasUsedUntouched ==
    (t_fn = "fit" /\ supplied # None) =>
        /\ searches = <<>>
        /\ t_pc \in {"fit", "fit_generator"}
        /\ heap.arg = supplied[1]
        /\ gen_pc = "suspended" =>
              yielded.P_array =
                  _make_P_np(BatchOf(training_data, cur_step),
                             BatchOf(supplied[1], cur_step)).val

\* a second pass over batches of two points built from supplied betas
C5_Witness ==
    /\ t_fn = "fit" /\ supplied # None
    /\ gen_pc = "suspended"
    /\ yields > num_steps
    /\ \E i, j \in 1..yielded.P_array.nr : yielded.P_array.e[i][j][1] > 0

\* C10: for N >= 1 rows and batch_size b >= 1 the generator never raises or
\* ends, and its k-th yield (k = 0, 1, ...) is the b data rows
\* [b*s, b*(s+1)), s = k mod (N div b), with the P built from the betas of the
\* same index range.
C10_CyclesForever ==
    /\ gen_pc # "raised"
    /\ gen_pc = "suspended" =>
          LET s == (yields - 1) % (num_pts \div batch_size)
          IN  /\ yielded.cur_dat = BatchOf(training_data, s)
              /\ Len(yielded.cur_dat) = batch_size
              /\ yielded.P_array =
                     _make_P_np(BatchOf(training_data, s),
                                BatchOf(heap[gen_betas], s)).val

====
